---- MODULE Spec2Model ----
(***************************************************************************)
(* A model of the MediaWiki API wrapper (mediawiki/mediawiki.py and        *)
(* mediawiki/utilities.py): the memoize decorator and its cache, the       *)
(* categorymembers pagination loop, the rate limiter of wiki_request and   *)
(* the recursive category tree builder.                                    *)
(*                                                                         *)
(* Each component has its own specification over the shared variables:     *)
(*   Spec      the memoized operations and the cache settings              *)
(*   SpecPage  one categorymembers call against a paginating API           *)
(*   SpecRate  wiki_request under the rate limiter                         *)
(*   SpecTree  one categorytree call                                       *)
(***************************************************************************)
EXTENDS Integers, Sequences, FiniteSets, TLC

VARIABLES
    (* the client's fields used by utilities.memoize *)
    cache,              \* self._cache
    refresh_interval,   \* self._refresh_interval
    use_cache,          \* self._use_cache
    (* environment of the memoized operations *)
    now,                \* the wall clock (time.time() / datetime.now())
    focus,              \* the operation this behaviour exercises
    nCalls,             \* number of memoized calls made so far
    last,               \* observation of the latest memoized call
    (* one categorymembers call: its arguments, locals and result *)
    cm_pc,              \* "idle", "loop", "done" or "raised"
    results,            \* the results argument
    subcategories,      \* the subcategories argument
    cmlimit,            \* search_params["cmlimit"]
    pages,
    subcats,
    returned_results,
    finished,
    last_cont,
    (* the API the call talks to *)
    srvCount,           \* number of members the category holds
    received,           \* number of records the API has sent so far
    nReq,               \* requests issued by the call
    lastResp,           \* the latest request and its response
    honest,             \* every response so far was a well-behaved one
    nonEmpty,           \* every response so far held at least one member
    (* the rate limiter of wiki_request *)
    rate_limit,             \* self._rate_limit
    min_wait,               \* self._min_wait
    rate_limit_last_call,   \* self._rate_limit_last_call
    rq_pc,              \* "idle", "wait", "send", "inflight" or "record"
    rq_out,             \* how the latest wiki_request call ended
    sentAt,             \* when the latest request was sent
    prevDone,           \* when the request before it completed
    doneAt,             \* when the latest request completed
    touched,            \* a setter of the limiter ran since then
    waitObs,            \* the clock at the test of line 858, the sleep asked
    (* one categorytree call *)
    tr_pc,              \* "idle", "walk", "try", "sleep", "fill", "done", "raised"
    tr_cats,            \* the category argument, as a list (cats)
    depth,              \* the depth argument
    graph,              \* the subcategories of each category on the site
    tree,               \* the result: path of category names -> node or null
    categories,         \* names whose page the call holds (dict categories)
    links,              \* name -> (pages, subcategories) (dict links)
    stack,              \* the active calls of __cat_tree_rec
    cur,                \* the call of __cat_tree_rec being executed
    tries,              \* failed attempts of that call
    attempts,           \* attempts made by that call
    slept,              \* seconds that call has slept
    pageFetches,        \* name -> calls of self.page for it
    memberFetches,      \* name -> calls of self.categorymembers for it
    anyFailed,          \* some fetch of this categorytree call failed
    lastOutcome,        \* how the latest attempt of that call ended
    tr_err,             \* the exception the call raised
    (* the client's endpoint, site information and login state *)
    site_pc,            \* "new", "ready" or "failed" (the constructor raised)
    api_url,            \* self._api_url
    lang,               \* self._lang
    is_logged_in,       \* self._is_logged_in
    login_url,          \* where the session last logged in, "" after a reset
    api_version,        \* self._api_version
    base_url,           \* self._base_url
    siteLast            \* observation of the latest call on the client

memoVars == <<cache, refresh_interval, use_cache, focus, nCalls, last>>

pageVars == <<cm_pc, results, subcategories, cmlimit, pages, subcats,
              returned_results, finished, last_cont, srvCount,
              received, nReq, lastResp, honest, nonEmpty>>

rateVars == <<rate_limit, min_wait, rate_limit_last_call, rq_pc, rq_out,
              sentAt, prevDone, doneAt, touched, waitObs>>

treeVars == <<tr_pc, tr_cats, depth, graph, tree, categories, links, stack, cur,
              tries, attempts, slept, pageFetches, memberFetches, anyFailed,
              lastOutcome, tr_err>>

siteVars == <<site_pc, api_url, lang, is_logged_in, login_url, api_version,
              base_url,
              siteLast>>

vars == <<memoVars, now, pageVars, rateVars, treeVars, siteVars>>

(* what the actions of one component leave alone *)
notMemo == <<pageVars, rateVars, treeVars, siteVars>>
notPage == <<memoVars, now, rateVars, treeVars, siteVars>>
notRate == <<memoVars, pageVars, treeVars, siteVars>>
notTree == <<memoVars, now, pageVars, rateVars, siteVars>>
notSite == <<memoVars, now, pageVars, rateVars, treeVars>>

-----------------------------------------------------------------------------
(* Bounds of the model *)

MaxCalls == 2     \* memoized calls per behaviour
MaxTime == 2      \* the clock runs over 0..MaxTime
MaxRefresh == 1   \* refresh intervals tried: 1..MaxRefresh
MaxResults == 3   \* small result counts asked for: 0..MaxResults
MaxMembers == 4   \* small categories hold 0..MaxMembers members
MaxOver == 1      \* the large result count is max_pull + MaxOver
MaxShort == 1     \* a response is at most MaxShort records off empty or full
MaxTok == 1       \* continuation tokens an API may make up
MaxReq == 3       \* requests followed within one call
MaxWait == 2      \* min_wait ranges over 0..MaxWait
MaxClock == 5     \* wiki_request is called while the clock is in 0..MaxClock
MaxOversleep == 1 \* time.sleep returns at most MaxOversleep late
MaxDepth == 2     \* depth arguments tried: None and 0..MaxDepth
MaxLevel == 3     \* __cat_tree_rec nests down to level MaxLevel
MaxCount == 2     \* fetches of one category are counted up to MaxCount

-----------------------------------------------------------------------------
(* Python values, tagged by type, and str() of a value *)

PyNone == <<"none", "None">>
PyInt(n) == <<"int", n>>
PyString(s) == <<"str", s>>
PyBool(b) == <<"bool", b>>

PyStr(v) ==
    CASE v[1] = "int" -> ToString(v[2])
      [] v[1] = "bool" -> (IF v[2] THEN "True" ELSE "False")
      [] v[1] = "none" -> "None"
      [] OTHER -> v[2]

(* a check that lets an empty string through *)
IsBlankNoneOnly(v) == v = PyNone

(* lines 924-927: value is None or value.strip() == "", for the strings the
   model uses *)
IsBlank(v) == v = PyNone \/ (v[1] = "str" /\ v[2] \in {"", " "})

-----------------------------------------------------------------------------
(* The memoized operations and their signatures *)

OpNames == {"allpages", "search", "suggest", "geosearch", "opensearch",
            "prefixsearch", "summary", "categorymembers"}

(* the parameters after self, in declaration order *)
Params(op) ==
    CASE op = "allpages" -> <<"query", "results">>
      [] op = "search" -> <<"query", "results", "suggestion">>
      [] op = "suggest" -> <<"query">>
      [] op = "geosearch" -> <<"latitude", "longitude", "radius", "title",
                               "auto_suggest", "results">>
      [] op = "opensearch" -> <<"query", "results", "redirect">>
      [] op = "prefixsearch" -> <<"prefix", "results">>
      [] op = "summary" -> <<"title", "sentences", "chars", "auto_suggest",
                             "redirect">>
      [] op = "categorymembers" -> <<"category", "results", "subcategories">>

(* parse_all_arguments: the parameters that have a default, with it *)
parse_all_arguments(op) ==
    CASE op = "allpages" -> [query |-> PyString(""), results |-> PyInt(10)]
      [] op = "search" -> [results |-> PyInt(10), suggestion |-> PyBool(FALSE)]
      [] op = "suggest" -> << >>
      [] op = "geosearch" -> [latitude |-> PyNone, longitude |-> PyNone,
                              radius |-> PyInt(1000), title |-> PyNone,
                              auto_suggest |-> PyBool(TRUE),
                              results |-> PyInt(10)]
      [] op = "opensearch" -> [results |-> PyInt(10), redirect |-> PyBool(TRUE)]
      [] op = "prefixsearch" -> [results |-> PyInt(10)]
      [] op = "summary" -> [sentences |-> PyInt(0), chars |-> PyInt(0),
                            auto_suggest |-> PyBool(TRUE),
                            redirect |-> PyBool(TRUE)]
      [] op = "categorymembers" -> [results |-> PyInt(10),
                                    subcategories |-> PyBool(TRUE)]

(* sorted(): every parameter name of the memoized operations, ascending *)
SortedNames ==
    <<"auto_suggest", "category", "chars", "latitude", "longitude", "prefix",
      "query", "radius", "redirect", "results", "sentences", "subcategories",
      "suggestion", "title">>

(* a call: the operation, its positional arguments and its keyword arguments *)
Call(op, pos, kw) == [op |-> op, pos |-> pos, kw |-> kw]

NoKw == << >>

(* d1 overridden by d2 (dict.update) *)
Update(d1, d2) ==
    [k \in DOMAIN d1 \cup DOMAIN d2 |-> IF k \in DOMAIN d2 THEN d2[k] ELSE d1[k]]

(* the values the function body sees for its parameters *)
Bind(call) ==
    LET ps == Params(call.op)
        positional == [k \in {ps[i] : i \in 1..Len(call.pos)} |->
                         call.pos[CHOOSE i \in 1..Len(call.pos) : ps[i] = k]]
        declared == parse_all_arguments(call.op)
    IN Update(Update(declared, positional), call.kw)

RECURSIVE Join(_)
(* " - ".join(tmp) *)
Join(tmp) ==
    IF Len(tmp) = 0 THEN ""
    ELSE IF Len(tmp) = 1 THEN tmp[1]
    ELSE tmp[1] \o " - " \o Join(Tail(tmp))

(* utilities.memoize, lines 44-54: the cache key of a call, given the
   captured defaults of its operation *)
MakeKey(captured, call) ==
    LET defaults == Update(captured, call.kw)
        keys == SelectSeq(SortedNames, LAMBDA k : k \in DOMAIN defaults)
        named == [i \in 1..Len(keys) |->
                    "(" \o keys[i] \o ": " \o PyStr(defaults[keys[i]]) \o ")"]
        tmp == [i \in 1..Len(call.pos) |-> PyStr(call.pos[i])] \o named
    IN Join(tmp)

-----------------------------------------------------------------------------
(* Values and results of the operations *)

(* what an operation returns: computed for an operation and its effective
   arguments from the data the API served at time ver *)
Value(op, args, ver) == [op |-> op, args |-> args, ver |-> ver]
NoVal == Value("none", << >>, -1)

(* the environment of one top-level call: the clock value, whether its API
   requests succeed, and the cache settings the wrapper reads from the client *)
Env(t, net, use, refresh) ==
    [t |-> t, net |-> net, use_cache |-> use, refresh |-> refresh]

(* the outcome of running a function: the cache afterwards, the returned
   value or the exception raised, the operations whose body ran and the
   number of API requests issued *)
Return(c, val, runs, reqs) ==
    [cache |-> c, ok |-> TRUE, val |-> val, exc |-> "", runs |-> runs,
     reqs |-> reqs]
Raise(c, exc, runs, reqs) ==
    [cache |-> c, ok |-> FALSE, val |-> NoVal, exc |-> exc, runs |-> runs,
     reqs |-> reqs]

(* wiki_request followed by _check_error_response and field extraction:
   one API request, which either fails or yields the served data *)
Request(c, call, env, runs, reqs) ==
    IF env.net = "err"
    THEN Raise(c, "MediaWikiException", runs, reqs + 1)
    ELSE Return(c, Value(call.op, Bind(call), env.t), runs, reqs + 1)

NoEntry == <<-1, NoVal>>

(* cache[name][key], or NoEntry *)
Entry(c, name, key) ==
    IF name \in DOMAIN c /\ key \in DOMAIN c[name] THEN c[name][key] ELSE NoEntry

(* a wrapper that forgets to keep what it computed *)
StoreNothing(c, name, key, entry) == c

(* cache[name][key] = entry *)
Store(c, name, key, entry) ==
    [c EXCEPT ![name] = Update(@, [k \in {key} |-> entry])]

(* utilities.memoize, lines 39-43: the first call of an operation creates
   its partition and captures its defaults *)
WithPartition(c, name) ==
    IF name \in DOMAIN c THEN c
    ELSE LET c1 == Update(c, [k \in {name} |-> << >>])
             c2 == IF "defaults" \in DOMAIN c1 THEN c1
                   ELSE Update(c1, [k \in {"defaults"} |-> << >>])
         IN [c2 EXCEPT !["defaults"] =
                Update(@, [k \in {name} |-> parse_all_arguments(name)])]

(* a refresh test that is off by one: an entry of age R is refreshed too *)
NeedsRefreshAtAge(refresh, t, entry) ==
    refresh # PyNone /\ t - entry[1] >= refresh[2]

(* utilities.memoize, line 62: the entry has to be refreshed *)
NeedsRefresh(refresh, t, entry) ==
    refresh # PyNone /\ t - entry[1] > refresh[2]

(* a wrapper that makes an entry of a call that raised as well *)
AssignedAlways(r, name, key, t) ==
    [r EXCEPT !.cache = Store(r.cache, name, key, <<t, r.val>>)]

(* utilities.memoize, lines 58 and 63: cache[name][key] = (time.time(),
   func(...)) is assigned when func has returned, not when it raised *)
Assigned(r, name, key, t) ==
    IF r.ok
    THEN [r EXCEPT !.cache = Store(r.cache, name, key, <<t, r.val>>)]
    ELSE r

RECURSIVE memoize(_, _, _)

(* the bodies of the memoized operations (mediawiki.py, lines 480-773) *)
func(c, call, env) ==
    LET op == call.op
        a == Bind(call)
        me == {op}
        sub(title) == memoize(c, Call("suggest", <<title>>, NoKw), env)
    IN CASE op \in {"search", "opensearch", "categorymembers"}
              /\ IsBlank(a[Params(op)[1]]) ->
                Raise(c, "ValueError", me, 0)
         [] op = "prefixsearch" /\ IsBlank(a.prefix) ->
                Raise(c, "ValueError", me, 0)
         [] op = "suggest" ->
                LET r == memoize(c, Call("search", <<a.query>>,
                                         [results |-> PyInt(1),
                                          suggestion |-> PyBool(TRUE)]), env)
                IN IF r.ok
                   THEN Return(r.cache, Value(op, a, r.val.ver),
                               r.runs \cup me, r.reqs)
                   ELSE [r EXCEPT !.runs = @ \cup me]
         [] op = "summary" /\ IsBlank(a.title) ->
                Raise(c, "ValueError", me, 0)
         [] op = "summary" /\ a.auto_suggest[2] ->
                LET r == sub(a.title)
                IN IF r.ok
                   THEN Request(r.cache, call, env, r.runs \cup me, r.reqs + 1)
                   ELSE [r EXCEPT !.runs = @ \cup me]
         [] op = "summary" ->
                Request(c, call, env, me, 1)
         [] op = "geosearch" /\ a.title # PyNone /\ a.auto_suggest[2] ->
                LET r == sub(a.title)
                IN IF r.ok
                   THEN Request(r.cache, call, env, r.runs \cup me, r.reqs)
                   ELSE [r EXCEPT !.runs = @ \cup me]
         [] op = "geosearch" /\ a.title = PyNone
              /\ (a.latitude = PyNone \/ a.longitude = PyNone) ->
                Raise(c, "ValueError", me, 0)
         [] OTHER -> Request(c, call, env, me, 0)

(* utilities.memoize.wrapper *)
memoize(c, call, env) ==
    IF env.use_cache = FALSE
    THEN func(c, call, env)
    ELSE LET name == call.op
             c1 == WithPartition(c, name)
             key == MakeKey(c1["defaults"][name], call)
             compute == Assigned(func(c1, call, env), name, key, env.t)
         IN IF key \notin DOMAIN c1[name]
            THEN compute
            ELSE IF NeedsRefresh(env.refresh, env.t, c1[name][key])
                 THEN compute
                 ELSE Return(c1, c1[name][key][2], {}, 0)

(* the key the wrapper uses for a call in cache c *)
KeyOf(c, call) == MakeKey(WithPartition(c, call.op)["defaults"][call.op], call)

-----------------------------------------------------------------------------
(* The calls the model makes *)

Calls ==
    { Call("allpages", << >>, NoKw),
      Call("search", <<PyString("a")>>, NoKw),
      Call("search", <<PyString("a")>>,
           [results |-> PyInt(1), suggestion |-> PyBool(TRUE)]),
      Call("suggest", <<PyString("a")>>, NoKw),
      Call("geosearch", << >>, [title |-> PyString("a")]),
      Call("opensearch", <<PyString("a")>>, NoKw),
      Call("prefixsearch", <<PyString("a")>>, NoKw),
      Call("summary", <<PyString("a")>>, NoKw),
      Call("categorymembers", <<PyString("a")>>, NoKw),
      Call("categorymembers", <<PyString("a")>>, [results |-> PyInt(10)]) }

(* calls without a query *)
BlankCalls ==
    { Call("categorymembers", <<PyString("")>>, NoKw),
      Call("opensearch", <<PyString("")>>, NoKw) }

(* result counts that are not positive *)
NonPositive == {PyInt(-1), PyInt(0)}

(* calls of the listing operations for a result count that is not positive *)
NonPositiveCalls ==
    UNION { { Call("allpages", << >>, [results |-> n]),
              Call("search", <<PyString("a")>>, [results |-> n]),
              Call("geosearch", << >>, [title |-> PyString("a"), results |-> n]),
              Call("opensearch", <<PyString("a")>>, [results |-> n]),
              Call("prefixsearch", <<PyString("a")>>, [results |-> n]),
              Call("categorymembers", <<PyString("a")>>, [results |-> n]) } :
            n \in NonPositive }

(* calls of categorymembers that pass results by default, by keyword and
   by position, and a call whose category reads like two arguments joined *)
KeyCalls ==
    { Call("categorymembers", <<PyString("a")>>, NoKw),
      Call("categorymembers", <<PyString("a")>>, [results |-> PyInt(10)]),
      Call("categorymembers", <<PyString("a"), PyInt(10)>>, NoKw),
      Call("categorymembers", <<PyString("a"), PyInt(5)>>, NoKw),
      Call("categorymembers", <<PyString("a - 5")>>, NoKw) }

NoCall == Call("none", << >>, NoKw)

(* the observation of a memoized call *)
Observe(call, key, use, refresh, at, before, after, r, repeat) ==
    [call |-> call, key |-> key, use_cache |-> use, refresh |-> refresh,
     at |-> at, before |-> before, after |-> after,
     ok |-> r.ok, exc |-> r.exc, val |-> r.val, runs |-> r.runs,
     reqs |-> r.reqs, repeat |-> repeat, cleared |-> FALSE,
     afterClear |-> FALSE]

NoObservation ==
    Observe(NoCall, "", TRUE, PyNone, 0, NoEntry, NoEntry,
            Return(<< >>, NoVal, {}, 0), FALSE)

-----------------------------------------------------------------------------
(* Spec: the memoized operations *)

(* the operations the body of op calls through the wrapper, and op *)
Closure(op) ==
    CASE op = "suggest" -> {"suggest", "search"}
      [] op \in {"summary", "geosearch"} -> {op, "suggest", "search"}
      [] OTHER -> {op}

InitMemo ==
    /\ cache = << >>
    /\ refresh_interval = PyNone
    /\ use_cache = TRUE
    /\ now = 0
    /\ focus \in OpNames
    /\ nCalls = 0
    /\ last = NoObservation

(* one of the given calls is made: the wrapper runs, and wiki_request
   records the time of the call when it is rate limited (lines 865-866) *)
Memoized(calls) ==
    /\ nCalls < MaxCalls
    /\ \E call \in calls, net \in {"ok", "err"} :
         /\ call.op \in Closure(focus)
         /\ LET env == Env(now, net, use_cache, refresh_interval)
                r == memoize(cache, call, env)
                key == KeyOf(cache, call)
            IN /\ cache' = r.cache
               /\ last' = [Observe(call, key, use_cache, refresh_interval,
                                   now, Entry(cache, call.op, key),
                                   Entry(r.cache, call.op, key), r,
                                   /\ last.call = call
                                   /\ last.ok
                                   /\ last.use_cache
                                   /\ ~last.cleared)
                              EXCEPT !.afterClear = /\ last.call = call
                                                    /\ last.ok
                                                    /\ last.use_cache
                                                    /\ last.cleared]
               /\ rate_limit_last_call' =
                    IF rate_limit /\ r.reqs > 0 THEN PyInt(now)
                    ELSE rate_limit_last_call
    /\ nCalls' = nCalls + 1
    /\ UNCHANGED <<refresh_interval, use_cache, now, focus, pageVars,
                   treeVars, siteVars, rate_limit, min_wait, rq_pc, rq_out,
                   sentAt, prevDone, doneAt, touched, waitObs>>

(* a memoized operation is called *)
MemoCall == Memoized(Calls)

(* a memoized operation is called without a query *)
MemoCallBlank == Memoized(BlankCalls)

(* a clear that leaves the cache as it is *)
ClearedNothing(c) == c

(* self._cache.clear() (mediawiki.py, line 425) *)
Cleared(c) == << >>

(* categorymembers is called with its arguments passed in different ways *)
MemoCallKeys == Memoized(KeyCalls)

(* a listing operation is called for a result count that is not positive *)
MemoCallNonPositive == Memoized(NonPositiveCalls)

(* random (mediawiki.py, lines 463-478), which is not memoized: the check
   of pages, then one request *)
random(c, n, env) ==
    IF n = PyNone \/ n[2] < 1
    THEN Raise(c, "ValueError", {"random"}, 0)
    ELSE IF env.net = "err"
         THEN Raise(c, "MediaWikiException", {"random"}, 1)
         ELSE Return(c, Value("random", [pages |-> n], env.t),
                     {"random"}, 1)

(* random is called *)
CallRandom ==
    /\ nCalls < MaxCalls
    /\ \E n \in NonPositive \cup {PyNone, PyInt(1), PyInt(2)},
          net \in {"ok", "err"} :
         LET r == random(cache, n, Env(now, net, use_cache, refresh_interval))
         IN /\ last' = Observe(Call("random", << >>, [pages |-> n]), "",
                               use_cache, refresh_interval, now, NoEntry,
                               NoEntry, r, FALSE)
            /\ rate_limit_last_call' =
                 IF rate_limit /\ r.reqs > 0 THEN PyInt(now)
                 ELSE rate_limit_last_call
    /\ nCalls' = nCalls + 1
    /\ UNCHANGED <<cache, refresh_interval, use_cache, now, focus, pageVars,
                   treeVars, siteVars, rate_limit, min_wait, rq_pc, rq_out,
                   sentAt, prevDone, doneAt, touched, waitObs>>

(* use_cache setter (mediawiki.py, lines 196-199) *)
SetUseCache ==
    /\ \E b \in BOOLEAN : use_cache' = b
    /\ UNCHANGED <<cache, refresh_interval, now, focus, nCalls, last, notMemo>>

(* refresh_interval setter (mediawiki.py, lines 323-329) *)
SetRefreshInterval ==
    /\ \E v \in {PyNone} \cup {PyInt(n) : n \in 0..MaxRefresh} :
         refresh_interval' = IF v[1] = "int" /\ v[2] > 0 THEN v ELSE PyNone
    /\ UNCHANGED <<cache, use_cache, now, focus, nCalls, last, notMemo>>

(* clear_memoized (mediawiki.py, lines 422-425) *)
clear_memoized ==
    /\ cache' = Cleared(cache)
    /\ last' = [last EXCEPT !.cleared = TRUE]
    /\ UNCHANGED <<refresh_interval, use_cache, now, focus, nCalls, notMemo>>

(* time passes *)
Tick ==
    /\ now < MaxTime
    /\ now' = now + 1
    /\ UNCHANGED <<cache, refresh_interval, use_cache, focus, nCalls, last,
                   notMemo>>

-----------------------------------------------------------------------------
(* SpecPage: categorymembers (mediawiki.py, lines 710-773) against an API *)

max_pull == 500
category_prefix == "Category"

(* continuation tokens: none (the code's False), the position the listing
   resumes at, or a token the API made up *)
NoToken == <<"none", 0>>
PosToken(n) == <<"pos", n>>
MadeUp(i) == <<"tok", i>>
(* last_cont = dict(): nothing is sent with the first request *)
NothingSent == <<"dict", 0>>

(* the i-th member of the category, as the API lists it for a cmtype:
   pages, subcategories and files in turn when subcategories are asked for,
   pages and files otherwise; a subcategory's title carries the prefix *)
MemberType(i, subs) ==
    IF subs
    THEN CASE i % 3 = 1 -> "page" [] i % 3 = 2 -> "subcat" [] OTHER -> "file"
    ELSE IF i % 2 = 1 THEN "page" ELSE "file"

Member(i, subs) ==
    LET type == MemberType(i, subs)
    IN [type |-> type,
        title |-> <<IF type = "subcat" THEN category_prefix ELSE "", i>>]

(* lines 749-751: the title without the category prefix and its colon *)
StripPrefix(title) ==
    IF title[1] = category_prefix THEN <<"", title[2]>> ELSE title

(* lines 745-752: the records of one response, appended to the two lists *)
PagesOf(recs) ==
    LET sel == SelectSeq(recs, LAMBDA rec : rec.type \in {"page", "file"})
    IN [i \in 1..Len(sel) |-> sel[i].title]

SubcatsOf(recs) ==
    LET sel == SelectSeq(recs, LAMBDA rec : rec.type = "subcat")
    IN [i \in 1..Len(sel) |-> StripPrefix(sel[i].title)]

(* a loop that reads the top-level continue first *)
ContinuationTopFirst(resp) ==
    IF resp.cont # NoToken THEN resp.cont ELSE resp.qc

(* the token a response carries: query-continue.categorymembers if present,
   otherwise the top-level continue *)
TokenOf(resp) == IF resp.qc # NoToken THEN resp.qc ELSE resp.cont

(* lines 754-758: the continuation token of a response *)
Continuation(resp) ==
    IF resp.qc # NoToken THEN resp.qc ELSE resp.cont

(* a loop without the guard against a repeated token *)
StopsAtEndOnly(cont, sent) == cont = NoToken

(* line 760: the loop is left *)
Stops(cont, sent) == cont = NoToken \/ sent = cont

(* a first request that ignores the number of results asked for *)
FirstLimitMax(res) == max_pull

(* line 729: the first cmlimit *)
FirstLimit(res) ==
    IF res # PyNone
    THEN (IF res[2] < max_pull THEN res[2] ELSE max_pull)
    ELSE max_pull

(* a loop that never lowers cmlimit *)
NextLimitKept(res, limit, returned) == limit

(* lines 769-770: the cmlimit of the next request *)
NextLimit(res, limit, returned) ==
    IF res # PyNone /\ res[2] - returned < max_pull
    THEN res[2] - returned
    ELSE limit

(* a loop that goes on whatever has been returned *)
MoreAlways(res, returned) == TRUE

(* line 764: more results are wanted *)
More(res, returned) == res = PyNone \/ res[2] - returned > 0

(* line 773: the value returned once the loop is left *)
ReturnValue(subs, pgs, scs) == IF subs THEN <<pgs, scs>> ELSE <<pgs>>

(* the sizes a response to a request of the given limit may have: at most
   the limit and at most what is left, near empty or near full *)
Sizes(limit, left) ==
    LET full == IF limit < left THEN limit ELSE left
    IN {k \in 0..full : k <= MaxShort \/ k >= full - MaxShort}

(* the tokens a response may carry when the listing would resume at pos *)
Tokens(pos) == {NoToken, PosToken(pos)} \cup {MadeUp(i) : i \in 1..MaxTok}

(* the records of a response of the given size: the API lists the members
   of the category in order, from where its last response ended *)
Records(size) == [i \in 1..size |-> Member(received + i, subcategories)]

(* the continuation a response may carry when the listing would resume at
   pos: none, a token under query-continue.categorymembers or under continue,
   or the position under one and a made-up token under the other *)
Continuations(pos) ==
    {[qc |-> NoToken, cont |-> NoToken]}
      \cup {[qc |-> t, cont |-> NoToken] : t \in Tokens(pos) \ {NoToken}}
      \cup {[qc |-> NoToken, cont |-> t] : t \in Tokens(pos) \ {NoToken}}
      \cup {[qc |-> PosToken(pos), cont |-> MadeUp(i)] : i \in 1..MaxTok}
      \cup {[qc |-> MadeUp(i), cont |-> PosToken(pos)] : i \in 1..MaxTok}

(* a response of the given size carrying the given continuation *)
Response(size, c) == [size |-> size, qc |-> c.qc, cont |-> c.cont]

(* a well-behaved response: records while some are left and asked for, and
   the position to resume at as its only token exactly while records remain *)
WellBehaved(resp, limit) ==
    LET upto == received + resp.size
    IN /\ (limit >= 1 /\ received < srvCount) => resp.size >= 1
       /\ {resp.qc, resp.cont} \subseteq {NoToken, PosToken(upto)}
       /\ (upto < srvCount) <=> (TokenOf(resp) = PosToken(upto))

(* the result counts asked for: none, small ones, and one above max_pull *)
ResultsChoices ==
    {PyNone} \cup {PyInt(n) : n \in 0..MaxResults} \cup {PyInt(max_pull + MaxOver)}

(* the sizes of the category: small ones, and two above max_pull *)
CountChoices == (0..MaxMembers) \cup {max_pull + MaxOver, max_pull + MaxOver + 1}

NoResp == [sent |-> NothingSent, limit |-> 0, qc |-> NoToken, cont |-> NoToken,
           size |-> 0]

IdlePage ==
    /\ cm_pc = "idle"
    /\ results = PyNone
    /\ subcategories = TRUE
    /\ cmlimit = 0
    /\ pages = << >>
    /\ subcats = << >>
    /\ returned_results = 0
    /\ finished = FALSE
    /\ last_cont = NothingSent
    /\ srvCount = 0
    /\ received = 0
    /\ nReq = 0
    /\ lastResp = NoResp
    /\ honest = TRUE
    /\ nonEmpty = TRUE

(* lines 722-736: categorymembers is called on a category of some size *)
categorymembers ==
    /\ cm_pc = "idle"
    /\ \E category \in {PyString("a"), PyString("")},
          res \in ResultsChoices, subs \in BOOLEAN, count \in CountChoices :
         /\ results' = res
         /\ subcategories' = subs
         /\ srvCount' = count
         /\ IF IsBlank(category)
            THEN cm_pc' = "raised" /\ cmlimit' = cmlimit
            ELSE cm_pc' = "loop" /\ cmlimit' = FirstLimit(res)
    /\ pages' = << >>
    /\ subcats' = << >>
    /\ returned_results' = 0
    /\ finished' = FALSE
    /\ last_cont' = NothingSent
    /\ UNCHANGED <<received, nReq, lastResp, honest, nonEmpty, notPage>>

(* lines 738-770: one iteration of the loop, with the response it gets from
   an API that honours cmlimit *)
Iterate ==
    /\ cm_pc = "loop"
    /\ nReq < MaxReq
    /\ \E size \in Sizes(cmlimit, srvCount - received) :
         LET members == Records(size)
             current_pull == Len(members)
             pages1 == pages \o PagesOf(members)
             subcats1 == subcats \o SubcatsOf(members)
             returned1 == returned_results + current_pull
             more == More(results, returned1)
         IN /\ pages' = pages1
            /\ nonEmpty' = (nonEmpty /\ size >= 1)
            /\ subcats' = subcats1
            /\ received' = received + size
            /\ \E c \in Continuations(received + size) :
                 LET resp == Response(size, c)
                     cont == Continuation(resp)
                 IN /\ lastResp' = [sent |-> last_cont, limit |-> cmlimit,
                                    qc |-> resp.qc, cont |-> resp.cont,
                                    size |-> size]
                    /\ honest' = (honest /\ WellBehaved(resp, cmlimit))
                    /\ IF Stops(cont, last_cont)
                       THEN /\ cm_pc' = "done"
                            /\ UNCHANGED <<returned_results, last_cont,
                                           finished, cmlimit>>
                       ELSE /\ returned_results' = returned1
                            /\ last_cont' = IF more THEN cont ELSE last_cont
                            /\ finished' = ~more
                            /\ cmlimit' = NextLimit(results, cmlimit, returned1)
                            /\ cm_pc' = IF more THEN "loop" ELSE "done"
    /\ nReq' = nReq + 1
    /\ UNCHANGED <<results, subcategories, srvCount, notPage>>

(* lines 740-742: the request fails or the response reports an error *)
IterateFails ==
    /\ cm_pc = "loop"
    /\ nReq < MaxReq
    /\ nReq' = nReq + 1
    /\ cm_pc' = "raised"
    /\ UNCHANGED <<results, subcategories, cmlimit, pages, subcats,
                   returned_results, finished, last_cont, srvCount,
                   received, lastResp, honest, nonEmpty, notPage>>

NextPage ==
    \/ categorymembers
    \/ Iterate
    \/ IterateFails

-----------------------------------------------------------------------------
(* SpecRate: wiki_request (mediawiki.py, lines 840-868) and the setters of
   the rate limiter; the clock may advance between any two steps *)

Never == -1

(* the wait of a request: the clock when line 858 was evaluated and, once
   time.sleep was called, the length it was called with *)
WaitObs(checked, asked, length) ==
    [checked |-> checked, asked |-> asked, length |-> length]
NoWait == WaitObs(Never, FALSE, 0)

IdleRate ==
    /\ rate_limit = FALSE
    /\ min_wait = 1
    /\ rate_limit_last_call = PyNone
    /\ rq_pc = "idle"
    /\ rq_out = "none"
    /\ sentAt = Never
    /\ prevDone = Never
    /\ doneAt = Never
    /\ touched = FALSE
    /\ waitObs = NoWait

(* a limiter that never holds a request back *)
TooQuickNever(limit, last_call, wait, t) == FALSE

(* line 858: the call comes too quickly after the last one *)
TooQuick(limit, last_call, wait, t) ==
    limit /\ last_call # PyNone /\ last_call[2] + wait > t

(* lines 856-858: the limiter's fields and the clock are read *)
wiki_request ==
    /\ rq_pc = "idle"
    /\ now <= MaxClock
    /\ rq_pc' = IF TooQuick(rate_limit, rate_limit_last_call, min_wait, now)
                THEN "wait" ELSE "send"
    /\ rq_out' = "none"
    /\ waitObs' = WaitObs(now, FALSE, 0)
    /\ UNCHANGED <<now, rate_limit, min_wait, rate_limit_last_call,
                   sentAt, prevDone, doneAt, touched, notRate>>

(* lines 860-861: the clock is read again and the call sleeps for what is
   left of min_wait; time.sleep raises ValueError for a negative length and
   returns no earlier than asked *)
Sleep ==
    /\ rq_pc = "wait"
    /\ LET wait_time == (rate_limit_last_call[2] + min_wait) - now
       IN /\ waitObs' = WaitObs(waitObs.checked, TRUE, wait_time)
          /\ IF wait_time < 0
             THEN /\ rq_pc' = "idle"
                  /\ rq_out' = "ValueError"
                  /\ now' = now
             ELSE /\ rq_pc' = "send"
                  /\ rq_out' = "slept"
                  /\ \E over \in 0..MaxOversleep :
                       now' = now + wait_time + over
    /\ UNCHANGED <<rate_limit, min_wait, rate_limit_last_call, sentAt,
                   prevDone, doneAt, touched, notRate>>

(* line 863: the request is sent *)
SendRequest ==
    /\ rq_pc = "send"
    /\ rq_pc' = "inflight"
    /\ sentAt' = now
    /\ prevDone' = doneAt
    /\ doneAt' = Never
    /\ UNCHANGED <<now, rate_limit, min_wait, rate_limit_last_call, rq_out,
                   touched, waitObs, notRate>>

(* line 863: the response arrives and is parsed *)
ResponseArrives ==
    /\ rq_pc = "inflight"
    /\ rq_pc' = "record"
    /\ doneAt' = now
    /\ touched' = FALSE
    /\ UNCHANGED <<now, rate_limit, min_wait, rate_limit_last_call, rq_out,
                   sentAt, prevDone, waitObs, notRate>>

(* line 863: the request times out or its response is no JSON *)
RequestFails ==
    /\ rq_pc = "inflight"
    /\ rq_pc' = "idle"
    /\ rq_out' = "raised"
    /\ UNCHANGED <<now, rate_limit, min_wait, rate_limit_last_call, sentAt,
                   prevDone, doneAt, touched, waitObs, notRate>>

(* lines 865-868: the time of the call is recorded and the response returned *)
RecordCall ==
    /\ rq_pc = "record"
    /\ rq_pc' = "idle"
    /\ rq_out' = "returned"
    /\ rate_limit_last_call' = IF rate_limit THEN PyInt(now)
                               ELSE rate_limit_last_call
    /\ UNCHANGED <<now, rate_limit, min_wait, sentAt, prevDone, doneAt,
                   touched, waitObs, notRate>>

(* a setter that keeps the time of the last call *)
ResetLastCallKept(last_call) == last_call

(* self._rate_limit_last_call = None (lines 176 and 213) *)
ResetLastCall(last_call) == PyNone

(* rate_limit setter (lines 172-177) *)
SetRateLimit ==
    /\ rq_pc = "idle"
    /\ \E b \in BOOLEAN : rate_limit' = b
    /\ rate_limit_last_call' = ResetLastCall(rate_limit_last_call)
    /\ cache' = Cleared(cache)
    /\ last' = [last EXCEPT !.cleared = TRUE]
    /\ touched' = TRUE
    /\ UNCHANGED <<now, min_wait, rq_pc, rq_out, sentAt, prevDone, doneAt,
                   waitObs, refresh_interval, use_cache, focus, nCalls,
                   pageVars, treeVars, siteVars>>

(* rate_limit_min_wait setter (lines 209-213) *)
SetMinWait ==
    /\ rq_pc = "idle"
    /\ \E w \in 0..MaxWait : min_wait' = w
    /\ rate_limit_last_call' = ResetLastCall(rate_limit_last_call)
    /\ touched' = TRUE
    /\ UNCHANGED <<now, rate_limit, rq_pc, rq_out, sentAt, prevDone, doneAt,
                   waitObs, notRate>>

(* time passes *)
Elapse ==
    /\ now < MaxClock
    /\ now' = now + 1
    /\ UNCHANGED <<rateVars, notRate>>

NextRate ==
    \/ wiki_request
    \/ Sleep
    \/ SendRequest
    \/ ResponseArrives
    \/ RequestFails
    \/ RecordCall
    \/ SetRateLimit
    \/ SetMinWait
    \/ Elapse

-----------------------------------------------------------------------------
(* SpecTree: categorytree (mediawiki.py, lines 775-810) and __cat_tree_rec
   (lines 940-980), the recursion unfolded into a stack of calls *)

(* a name of white space only, and the stand-in for a category of None *)
Blank == " "
NoneName == "<None>"

Names == {"A", "B", "C", Blank}
NameOrder == <<"A", "B", "C", Blank>>

(* the sites the call runs against: a category reached on two paths at
   different levels, a chain, a cycle and two siblings *)
Graphs ==
    { g @@ (Blank :> << >>) :
        g \in { [A |-> <<"B", "C">>, B |-> <<"C">>, C |-> << >>],
                [A |-> <<"B">>, B |-> <<"C">>, C |-> << >>],
                [A |-> <<"B">>, B |-> <<"A">>, C |-> << >>],
                [A |-> <<"B", "C">>, B |-> << >>, C |-> << >>] } }

Range(seq) == {seq[i] : i \in 1..Len(seq)}

(* what the site holds for a category: its pages, its subcategories and the
   categories it belongs to *)
MembersOf(g, cat) == << <<"Page of " \o cat, "File of " \o cat>>, g[cat] >>
ParentsOf(g, cat) == SelectSeq(NameOrder, LAMBDA n : cat \in Range(g[n]))

(* the category arguments tried: a name, lists of names, blanks *)
CategoryChoices ==
    { <<"A">>, <<"B", "A">>, <<"A", "A">>, <<"">>, <<"", "A">>,
      <<NoneName>>, <<Blank>> }

(* "if x" of line 807: None and the empty string are false *)
Truthy(x) == x \notin {NoneName, ""}

DepthChoices == {PyNone} \cup {PyInt(d) : d \in 0..MaxDepth}

Null == [null |-> TRUE]
NoError == <<"none", "">>
NoCallRec == [path |-> << >>, level |-> 0]

IsPrefix(p, q) == Len(p) <= Len(q) /\ SubSeq(q, 1, Len(p)) = p
Last(p) == p[Len(p)]

(* tree[cat] = ... on the dict reached by a path: the entry is replaced,
   whatever hung below it is gone *)
Assign(t, p, v) ==
    [q \in {q \in DOMAIN t : ~IsPrefix(p, q)} \cup {p} |->
        IF q = p THEN v ELSE t[q]]

RECURSIVE AssignAll(_, _, _, _)
AssignAll(t, p, names, v) ==
    IF names = << >> THEN t
    ELSE AssignAll(Assign(t, p \o <<Head(names)>>, v), p, Tail(names), v)

Count(f, cat) == [f EXCEPT ![cat] = IF @ < MaxCount THEN @ + 1 ELSE @]

IdleTree ==
    /\ tr_pc = "idle"
    /\ tr_cats = << >>
    /\ depth = PyNone
    /\ graph = [n \in Names |-> << >>]
    /\ tree = << >>
    /\ categories = {}
    /\ links = << >>
    /\ stack = << >>
    /\ cur = NoCallRec
    /\ tries = 0
    /\ attempts = 0
    /\ slept = 0
    /\ pageFetches = [n \in Names |-> 0]
    /\ memberFetches = [n \in Names |-> 0]
    /\ anyFailed = FALSE
    /\ lastOutcome = "none"
    /\ tr_err = NoError

(* lines 929-938 *)
category_parameter_verification(cats, d) ==
    /\ ~(Len(cats) = 1 /\ (cats[1] = NoneName \/ cats[1] = ""))
    /\ ~(d # PyNone /\ d[2] < 1)

(* lines 799-809: categorytree is called on some site *)
categorytree ==
    /\ tr_pc = "idle"
    /\ \E category \in CategoryChoices, d \in DepthChoices, g \in Graphs :
         /\ tr_cats' = category
         /\ depth' = d
         /\ graph' = g
         /\ IF category_parameter_verification(category, d)
            THEN /\ tr_pc' = "walk"
                 /\ tr_err' = NoError
                 /\ stack' = <<[path |-> << >>, level |-> -1,
                                todo |-> SelectSeq(category, Truthy)]>>
            ELSE /\ tr_pc' = "raised"
                 /\ tr_err' = <<"ValueError", "">>
                 /\ stack' = << >>
    /\ tree' = << >>
    /\ categories' = {}
    /\ links' = << >>
    /\ UNCHANGED <<cur, tries, attempts, slept, pageFetches, memberFetches,
                   anyFailed, lastOutcome, notTree>>

(* a builder that fetches a category every time it is reached *)
KnownNever(cat, cats) == FALSE

(* line 949: the category was fetched earlier in this call of categorytree *)
Known(cat, cats) == cat \in cats

(* a builder that gives up one failure later *)
ExhaustedLate(t) == t > 11

(* line 952: too many attempts have failed *)
Exhausted(t) == t > 10

(* a builder that retries when the page is not found *)
PropagatesInterruptOnly(outcome) == outcome = "KeyboardInterrupt"

(* lines 960-963: the exceptions of an attempt that are raised again *)
Propagates(outcome) == outcome \in {"PageError", "KeyboardInterrupt"}

(* a builder that lists the subcategories as the links of a node *)
NodeOfSubcats(level, members, parent_cats) ==
    [depth |-> level, links |-> members[2], parents |-> parent_cats]

(* lines 943-946 and 970-971: the fields of a node, but for its
   sub-categories *)
NodeOf(level, members, parent_cats) ==
    [depth |-> level, links |-> members[1], parents |-> parent_cats]

(* a builder that stops one level earlier *)
AtDepthLimitEarly(d, level) == d # PyNone /\ d[2] # 0 /\ level + 1 >= d[2]

(* line 973: depth and level >= depth *)
AtDepthLimit(d, level) == d # PyNone /\ d[2] # 0 /\ level >= d[2]

(* lines 808-809 and 977-980, then lines 942-949: __cat_tree_rec is called
   for the next category of the list being walked; the interpreter gives up
   on a recursion that nests too deep *)
cat_tree_rec ==
    /\ tr_pc = "walk"
    /\ stack # << >>
    /\ Head(stack).todo # << >>
    /\ LET top == Head(stack)
           cat == Head(top.todo)
           path == top.path \o <<cat>>
           level == top.level + 1
       IN /\ stack' = <<[top EXCEPT !.todo = Tail(@)]>> \o Tail(stack)
          /\ IF level > MaxLevel
             THEN /\ tr_pc' = "raised"
                  /\ tr_err' = <<"RecursionError", cat>>
                  /\ UNCHANGED <<tree, cur>>
             ELSE /\ tree' = Assign(tree, path, [depth |-> level,
                                                 links |-> << >>,
                                                 parents |-> << >>])
                  /\ cur' = [path |-> path, level |-> level]
                  /\ tr_pc' = IF Known(cat, categories) THEN "fill" ELSE "try"
                  /\ tr_err' = tr_err
    /\ tries' = 0
    /\ attempts' = 0
    /\ slept' = 0
    /\ lastOutcome' = "none"
    /\ UNCHANGED <<tr_cats, depth, graph, categories, links, pageFetches,
                   memberFetches, anyFailed, notTree>>

(* lines 954-965: one attempt to fetch the page of the category and its
   members *)
Attempt ==
    /\ tr_pc = "try"
    /\ attempts' = attempts + 1
    /\ pageFetches' = Count(pageFetches, Last(cur.path))
    /\ LET cat == Last(cur.path)
       IN \E outcome \in {"ok", "page fails", "members fail", "PageError",
                          "KeyboardInterrupt"} :
            /\ categories' = IF outcome \in {"ok", "members fail"}
                             THEN categories \cup {cat} ELSE categories
            /\ memberFetches' = IF outcome \in {"ok", "members fail"}
                                THEN Count(memberFetches, cat)
                                ELSE memberFetches
            /\ anyFailed' = (anyFailed \/ outcome # "ok")
            /\ lastOutcome' = outcome
            /\ CASE outcome = "ok" ->
                      /\ links' = [c \in DOMAIN links \cup {cat} |->
                                     IF c = cat THEN MembersOf(graph, cat)
                                     ELSE links[c]]
                      /\ tr_pc' = "fill"
                      /\ UNCHANGED <<tries, tr_err>>
                 [] Propagates(outcome) ->
                      /\ tr_pc' = "raised"
                      /\ tr_err' = <<outcome, cat>>
                      /\ UNCHANGED <<links, tries>>
                 [] OTHER ->
                      /\ tries' = tries + 1
                      /\ tr_pc' = "sleep"
                      /\ UNCHANGED <<links, tr_err>>
    /\ UNCHANGED <<tr_cats, depth, graph, tree, stack, cur, slept, notTree>>

(* lines 951-953 and 966: the sleep after a failed attempt, and the test at
   the top of the loop *)
SleepAndRetry ==
    /\ tr_pc = "sleep"
    /\ slept' = slept + 1
    /\ IF Exhausted(tries)
       THEN /\ tr_pc' = "raised"
            /\ tr_err' = <<"MediaWikiCategoryTreeError", Last(cur.path)>>
       ELSE /\ tr_pc' = "try"
            /\ tr_err' = tr_err
    /\ UNCHANGED <<tr_cats, depth, graph, tree, categories, links, stack, cur, tries,
                   attempts, pageFetches, memberFetches, anyFailed,
                   lastOutcome, notTree>>

(* lines 967-980: the node is filled in; its subcategories become
   placeholders, or the list __cat_tree_rec is called for next *)
Fill ==
    /\ tr_pc = "fill"
    /\ LET cat == Last(cur.path)
           node == NodeOf(cur.level, links[cat], ParentsOf(graph, cat))
           filled == Assign(tree, cur.path, node)
       IN IF AtDepthLimit(depth, cur.level)
          THEN /\ tree' = AssignAll(filled, cur.path, links[cat][2], Null)
               /\ stack' = stack
          ELSE /\ tree' = filled
               /\ stack' = <<[path |-> cur.path, level |-> cur.level,
                              todo |-> links[cat][2]]>> \o stack
    /\ tr_pc' = "walk"
    /\ UNCHANGED <<tr_cats, depth, graph, categories, links, cur, tries, attempts,
                   slept, pageFetches, memberFetches, anyFailed, lastOutcome, tr_err,
                   notTree>>

(* the for loop of a call is over: the call returns, categorytree returning
   the tree after the last of them (line 810) *)
ReturnFromCall ==
    /\ tr_pc = "walk"
    /\ stack # << >>
    /\ Head(stack).todo = << >>
    /\ stack' = Tail(stack)
    /\ tr_pc' = IF Tail(stack) = << >> THEN "done" ELSE "walk"
    /\ UNCHANGED <<tr_cats, depth, graph, tree, categories, links, cur, tries,
                   attempts, slept, pageFetches, memberFetches, anyFailed, lastOutcome,
                   tr_err, notTree>>

NextTree ==
    \/ categorytree
    \/ cat_tree_rec
    \/ Attempt
    \/ SleepAndRetry
    \/ Fill
    \/ ReturnFromCall

-----------------------------------------------------------------------------
(* SpecSite: the constructor (mediawiki.py, lines 74-131), login (lines
   331-374), set_api_url (lines 377-407), _get_site_info (lines 871-902) and
   _check_error_response (lines 907-921) *)

DefaultUrl == "https://{lang}.wikipedia.org/w/api.php"
UrlChoices == {DefaultUrl, "https://wiki.example/w/api.php"}
LangChoices == {"en", "FR"}

(* str.lower() for the language codes the model uses *)
Lower(l) == IF l = "FR" THEN "fr" ELSE l

(* url.format(lang=...) *)
Format(url, l) ==
    IF url = DefaultUrl THEN "https://" \o l \o ".wikipedia.org/w/api.php"
    ELSE url

(* int(item) for the items the model uses: whether it parses, and to what *)
IsInt(item) == item \in {"0", "1", "35"}
ParseInt(item) == CASE item = "0" -> 0 [] item = "1" -> 1 [] item = "35" -> 35

(* a generator string, as the words between its blanks, each word as its
   parts between dashes, each part as its items between dots *)
Generator(words) == [present |-> TRUE, words |-> words]
NoGenerator == [present |-> FALSE, words |-> << >>]
GeneratorChoices ==
    { Generator(<< <<<<"MediaWiki">>>>, <<<<"1", "35", "0">>>> >>),
      Generator(<< <<<<"MediaWiki">>>>, <<<<"1", "35", "0">>, <<"wmf", "5">>>> >>),
      Generator(<< <<<<"MediaWiki">>>> >>),
      Generator(<< <<<<"MediaWiki">>>>, <<<<"1", "x">>>> >>),
      NoGenerator }

(* the responses to the siteinfo query: {} after a JSON decode failure, a
   query without general, and general sections of several kinds *)
SiteInfo(query, general, generator, server, base, extensions) ==
    [query |-> query, general |-> general, generator |-> generator,
     server |-> server, base |-> base, extensions |-> extensions]

EmptyResponse == SiteInfo(FALSE, FALSE, NoGenerator, "", "", FALSE)

SiteInfoChoices ==
    {EmptyResponse, SiteInfo(TRUE, FALSE, NoGenerator, "", "", FALSE)}
      \cup {SiteInfo(TRUE, TRUE, g, "//en.wikipedia.org",
                     "https://en.wikipedia.org/wiki/Main_Page", TRUE) :
              g \in GeneratorChoices}
      \cup {SiteInfo(TRUE, TRUE,
                     Generator(<< <<<<"MediaWiki">>>>, <<<<"1", "35", "0">>>> >>),
                     sv, "http://wiki.example/wiki/Main_Page", TRUE) :
              sv \in {"", "http://wiki.example", "//wiki.example"}}
      \cup {SiteInfo(TRUE, TRUE,
                     Generator(<< <<<<"MediaWiki">>>>, <<<<"1", "35", "0">>>> >>),
                     "//wiki.example", "http://wiki.example/wiki/Main_Page",
                     FALSE)}

NoVersion == << >>

(* str.startswith for the servers and bases the model uses *)
StartsWithHttp(tmp) == tmp \in {"http://wiki.example"}
StartsWithHttps(base) == base = "https://en.wikipedia.org/wiki/Main_Page"

(* the site information of a client, the exception "" meaning none *)
Site(exc, version, url) == [exc |-> exc, api_version |-> version, base_url |-> url]

(* lines 875-902: what _get_site_info makes of a response, given the site
   information the client holds: the exception it raises, if any, and the
   site information the client holds afterwards *)
get_site_info(response, old) ==
    IF ~response.query \/ ~response.general
    THEN Site("MediaWikiException", old.api_version, old.base_url)
    ELSE IF ~response.generator.present
    THEN Site("KeyError", old.api_version, old.base_url)
    ELSE IF Len(response.generator.words) < 2
    THEN Site("IndexError", old.api_version, old.base_url)
    ELSE LET major_minor == response.generator.words[2][1]
             version == [i \in 1..Len(major_minor) |->
                           IF IsInt(major_minor[i])
                           THEN ParseInt(major_minor[i])
                           ELSE -1]
             tmp == response.server
             url == IF StartsWithHttp(tmp) THEN tmp
                    ELSE IF StartsWithHttps(response.base)
                         THEN "https:" \o tmp
                         ELSE "http:" \o tmp
         IN IF \E i \in 1..Len(major_minor) : ~IsInt(major_minor[i])
            THEN Site("ValueError", old.api_version, old.base_url)
            ELSE IF tmp = ""
            THEN Site("MediaWikiException", version, old.base_url)
            ELSE IF ~response.extensions
            THEN Site("KeyError", version, url)
            ELSE Site("", version, url)

(* the responses to the login request: {} after a JSON decode failure, or
   a login section with a result and, perhaps, a reason *)
LoginResponse(present, result, reason) ==
    [present |-> present, result |-> result, reason |-> reason]
NoReason == "(no reason)"
LoginResponses ==
    { LoginResponse(FALSE, "", NoReason),
      LoginResponse(TRUE, "Success", NoReason),
      LoginResponse(TRUE, "Failed", "Incorrect password entered"),
      LoginResponse(TRUE, "WrongToken", "Invalid CSRF token"),
      LoginResponse(TRUE, "Aborted", NoReason) }

(* the outcome of a call: the exception raised ("" for none) with its
   message, the value returned, and the login state left behind *)
Outcome(exc, msg, ret, logged) ==
    [exc |-> exc, msg |-> msg, ret |-> ret, logged |-> logged]

(* a login that reports every failure by its return value *)
login_lenient(logged, has_token, res, strict) ==
    IF ~has_token THEN Outcome("UnboundLocalError", "", "None", logged)
    ELSE IF ~res.present THEN Outcome("KeyError", "", "None", logged)
    ELSE IF res.result = "Success" THEN Outcome("", "", "True", TRUE)
    ELSE Outcome("", "", "False", FALSE)

(* lines 346-374: login, given whether the token response holds a login
   token and the response to the login request *)
login(logged, has_token, res, strict) ==
    IF ~has_token THEN Outcome("UnboundLocalError", "", "None", logged)
    ELSE IF ~res.present THEN Outcome("KeyError", "", "None", logged)
    ELSE IF res.result = "Success" THEN Outcome("", "", "True", TRUE)
    ELSE IF ~strict THEN Outcome("", "", "False", FALSE)
    ELSE IF res.reason = NoReason THEN Outcome("KeyError", "", "None", FALSE)
    ELSE Outcome("MediaWikiLoginError",
                 "MediaWiki login failure: " \o res.reason, "None", FALSE)

http_error == {"HTTP request timed out.", "Pool queue is full"}
geo_error == {"Page coordinates unknown.",
              "One of the parameters gscoord, gspage, gsbbox is required",
              "Invalid coordinate provided"}

(* the API responses checked: without error, or with one of these messages *)
ApiResponse(error, info) == [error |-> error, info |-> info]
ApiResponses ==
    {ApiResponse(FALSE, "")}
      \cup {ApiResponse(TRUE, info) :
              info \in http_error \cup geo_error
                       \cup {"", "Bad title", "HTTP request timed out",
                             "Page coordinates unknown"}}

(* a check that takes every error for a generic one *)
check_error_response_generic(response, query) ==
    IF ~response.error THEN Outcome("", "", "None", FALSE)
    ELSE Outcome("MediaWikiException", response.info, "None", FALSE)

(* lines 907-921: _check_error_response *)
check_error_response(response, query) ==
    IF ~response.error THEN Outcome("", "", "None", FALSE)
    ELSE LET err == response.info
         IN IF err \in http_error
            THEN Outcome("HTTPTimeoutError", query, "None", FALSE)
            ELSE IF err \in geo_error
            THEN Outcome("MediaWikiGeoCoordError", err, "None", FALSE)
            ELSE Outcome("MediaWikiException", err, "None", FALSE)

(* the observation of a call on the client: the call, how it ended, the
   endpoint and language before it, and what the server answered *)
SiteObs(op, stage, exc, msg, ret, old_url, old_lang, strict, res, response) ==
    [op |-> op, stage |-> stage, exc |-> exc, msg |-> msg, ret |-> ret,
     old_api_url |-> old_url, old_lang |-> old_lang, strict |-> strict,
     res |-> res, response |-> response, net |-> "ok",
     siteinfo |-> EmptyResponse]

(* the same, of a call that queried the site information *)
SiteObsOf(obs, net, siteinfo) ==
    [obs EXCEPT !.net = net, !.siteinfo = siteinfo]

NoSiteObs ==
    SiteObs("none", "", "", "", "None", "", "", TRUE,
            LoginResponse(FALSE, "", NoReason), ApiResponse(FALSE, ""))

IdleSite ==
    /\ site_pc = "new"
    /\ api_url = ""
    /\ lang = ""
    /\ is_logged_in = FALSE
    /\ login_url = ""
    /\ api_version = NoVersion
    /\ base_url = ""
    /\ siteLast = NoSiteObs

(* the siteinfo request fails in the transport, or _get_site_info runs on
   the response *)
Transport == {"ok", "ConnectTimeout", "ConnectionError"}
Resolve(net, response, old) ==
    IF net # "ok" THEN Site(net, old.api_version, old.base_url)
    ELSE get_site_info(response, old)

(* no login: the constructor and set_api_url skip it without credentials *)
NoLogin == Outcome("", "", "None", FALSE)

(* what happens during a call of the constructor or of set_api_url: whether
   credentials are given and what the login requests get, then how the
   siteinfo request fares; hierarchy is whether MediaWikiLoginError derives
   from MediaWikiException *)
Scenario(creds, has_token, res, net, response, hierarchy) ==
    [creds |-> creds, has_token |-> has_token, res |-> res, net |-> net,
     response |-> response, hierarchy |-> hierarchy]

LoginOf(sc) ==
    IF sc.creds THEN login(FALSE, sc.has_token, sc.res, TRUE) ELSE NoLogin

Scenarios ==
    LET success == LoginResponse(TRUE, "Success", NoReason)
        logins == {Scenario(FALSE, TRUE, success, "ok", EmptyResponse, FALSE),
                   Scenario(TRUE, FALSE, success, "ok", EmptyResponse, FALSE)}
                    \cup {Scenario(TRUE, TRUE, res, "ok", EmptyResponse, FALSE) :
                            res \in LoginResponses}
        passed == {sc \in logins : LoginOf(sc).exc = ""}
    IN (logins \ passed)
         \cup {[sc EXCEPT !.hierarchy = TRUE] :
                 sc \in {x \in logins : LoginOf(x).exc = "MediaWikiLoginError"}}
         \cup {[sc EXCEPT !.net = net] :
                 sc \in passed, net \in Transport \ {"ok"}}
         \cup {[sc EXCEPT !.response = response] :
                 sc \in passed, response \in SiteInfoChoices}

(* a constructor that lets the error of _get_site_info through *)
InitRaisesUnderlying(exc) == exc

(* lines 128-131: the exception the constructor raises for one raised by
   _get_site_info *)
InitRaises(exc) ==
    IF exc = "MediaWikiException" THEN "MediaWikiAPIURLError" ELSE exc

(* lines 88-131: the client is constructed *)
MediaWikiInit ==
    /\ site_pc = "new"
    /\ \E url \in UrlChoices, l \in LangChoices, sc \in Scenarios :
         LET lg == LoginOf(sc)
             si == Resolve(sc.net, sc.response,
                           Site("", api_version, base_url))
             obs(stage, exc) ==
                 SiteObs("init", stage, exc, lg.msg, "None", api_url, lang,
                         TRUE, sc.res, ApiResponse(FALSE, ""))
         IN /\ lang' = Lower(l)
            /\ api_url' = Format(url, Lower(l))
            /\ is_logged_in' = lg.logged
            /\ login_url' = IF lg.logged THEN Format(url, Lower(l))
                            ELSE login_url
            /\ IF lg.exc # ""
               THEN /\ site_pc' = "failed"
                    /\ siteLast' = obs("login", lg.exc)
                    /\ UNCHANGED <<api_version, base_url>>
               ELSE /\ api_version' = si.api_version
                    /\ base_url' = si.base_url
                    /\ site_pc' = IF si.exc = "" THEN "ready" ELSE "failed"
                    /\ siteLast' = SiteObsOf(obs("siteinfo", InitRaises(si.exc)),
                                           sc.net, sc.response)
    /\ UNCHANGED notSite

(* a set_api_url that turns every exception into MediaWikiAPIURLError *)
CaughtAlways(exc, login_error_is_api_error) == TRUE

(* line 401: except (rex.ConnectTimeout, MediaWikiException); whether
   MediaWikiLoginError derives from MediaWikiException is decided in
   exceptions.py *)
Caught(exc, login_error_is_api_error) ==
    \/ exc \in {"ConnectTimeout", "MediaWikiException"}
    \/ exc = "MediaWikiLoginError" /\ login_error_is_api_error

(* the scenarios without credentials in which the site answers: its
   information is complete, or lacks a section or the server *)
PlainScenarios ==
    {sc \in Scenarios :
       /\ ~sc.creds
       /\ sc.net = "ok"
       /\ get_site_info(sc.response, Site("", NoVersion, "")).exc
            \in {"", "MediaWikiException"}}

(* lines 390-407: set_api_url, in one of the given scenarios *)
SetApiUrl(scenarios) ==
    /\ site_pc = "ready"
    /\ \E url \in UrlChoices, l \in LangChoices, sc \in scenarios :
         LET lg == LoginOf(sc)
             old == Site("", api_version, base_url)
             si == IF lg.exc # "" THEN Site(lg.exc, api_version, base_url)
                   ELSE Resolve(sc.net, sc.response, old)
             stage == IF lg.exc # "" THEN "login" ELSE "siteinfo"
             caught == si.exc # "" /\ Caught(si.exc, sc.hierarchy)
         IN /\ is_logged_in' = lg.logged
            /\ login_url' = IF lg.logged THEN Format(url, Lower(l))
                            ELSE login_url
            /\ api_version' = si.api_version
            /\ base_url' = si.base_url
            /\ lang' = IF caught THEN lang ELSE Lower(l)
            /\ api_url' = IF caught THEN api_url ELSE Format(url, Lower(l))
            /\ siteLast' = SiteObsOf(
                              SiteObs("set_api_url", stage,
                                      IF caught THEN "MediaWikiAPIURLError"
                                      ELSE si.exc,
                                      lg.msg, "None", api_url, lang, TRUE,
                                      sc.res, ApiResponse(FALSE, "")),
                              sc.net, sc.response)
            /\ cache' = IF si.exc = "" THEN Cleared(cache) ELSE cache
            /\ last' = IF si.exc = "" THEN [last EXCEPT !.cleared = TRUE]
                       ELSE last
    /\ UNCHANGED <<site_pc, refresh_interval, use_cache, focus, nCalls, now,
                   pageVars, rateVars, treeVars>>

(* set_api_url is called *)
CallSetApiUrl == SetApiUrl(Scenarios)

(* set_api_url is called without credentials on a site that answers *)
CallSetApiUrlPlain == SetApiUrl(PlainScenarios)

(* lines 331-374: login is called *)
CallLogin ==
    /\ site_pc = "ready"
    /\ \E strict \in BOOLEAN, has_token \in BOOLEAN, res \in LoginResponses :
         LET lg == login(is_logged_in, has_token, res, strict)
         IN /\ is_logged_in' = lg.logged
            /\ login_url' = IF lg.logged THEN api_url ELSE login_url
            /\ siteLast' = SiteObs("login",
                                   IF has_token THEN "login" ELSE "token",
                                   lg.exc, lg.msg, lg.ret, api_url, lang,
                                   strict, res, ApiResponse(FALSE, ""))
    /\ UNCHANGED <<site_pc, api_url, lang, api_version, base_url, notSite>>

(* lines 907-921: _check_error_response is called on a response *)
CallCheckErrorResponse ==
    /\ site_pc = "ready"
    /\ \E response \in ApiResponses, query \in {"a", "b"} :
         LET o == check_error_response(response, query)
         IN siteLast' = SiteObs("check", query, o.exc, o.msg, o.ret, api_url,
                                lang, TRUE,
                                LoginResponse(FALSE, "", NoReason), response)
    /\ UNCHANGED <<site_pc, api_url, lang, is_logged_in, login_url,
                   api_version, base_url, notSite>>

(* a setter that takes every language for a new one *)
SameLanguageNever(current, l) == FALSE

(* line 259, after lang.lower(): the language asked for is the current one *)
SameLanguage(current, l) == current = Lower(l)

(* url.replace("/{old}.", "/{new}.") (line 263), for the urls of the model *)
Replace(url, old, new) ==
    IF url = Format(DefaultUrl, old) THEN Format(DefaultUrl, new) ELSE url

(* language setter (lines 255-267) *)
SetLanguage ==
    /\ site_pc = "ready"
    /\ \E l \in LangChoices :
         /\ siteLast' = SiteObs("language", l, "", "", "None", api_url, lang,
                                TRUE, LoginResponse(FALSE, "", NoReason),
                                ApiResponse(FALSE, ""))
         /\ IF SameLanguage(lang, l)
            THEN UNCHANGED <<api_url, lang, cache, last>>
            ELSE /\ api_url' = Replace(api_url, lang, Lower(l))
                 /\ lang' = Lower(l)
                 /\ cache' = Cleared(cache)
                 /\ last' = [last EXCEPT !.cleared = TRUE]
    /\ UNCHANGED <<site_pc, is_logged_in, login_url, api_version, base_url,
                   refresh_interval, use_cache, focus, nCalls, now, pageVars,
                   rateVars, treeVars>>

(* _reset_session (lines 409-420), called by the user_agent, proxies and
   verify_ssl setters: a new session, not logged in *)
reset_session ==
    /\ site_pc = "ready"
    /\ is_logged_in' = FALSE
    /\ login_url' = ""
    /\ siteLast' = SiteObs("reset", "", "", "", "None", api_url, lang, TRUE,
                           LoginResponse(FALSE, "", NoReason),
                           ApiResponse(FALSE, ""))
    /\ UNCHANGED <<site_pc, api_url, lang, api_version, base_url, notSite>>

NextSite ==
    \/ MediaWikiInit
    \/ CallSetApiUrl
    \/ CallLogin
    \/ CallCheckErrorResponse
    \/ SetLanguage
    \/ reset_session

-----------------------------------------------------------------------------
(* The initial states and the specifications *)

Init ==
    /\ InitMemo
    /\ IdlePage
    /\ IdleRate
    /\ IdleTree
    /\ IdleSite

Next ==
    \/ MemoCall
    \/ SetUseCache
    \/ SetRefreshInterval
    \/ clear_memoized
    \/ Tick

Spec == Init /\ [][Next]_vars

InitPage ==
    /\ InitMemo
    /\ focus = "categorymembers"
    /\ IdlePage
    /\ IdleRate
    /\ IdleTree
    /\ IdleSite

SpecPage == InitPage /\ [][NextPage]_vars

InitRate ==
    /\ InitMemo
    /\ focus = "allpages"
    /\ IdlePage
    /\ IdleRate
    /\ IdleTree
    /\ IdleSite

SpecRate == InitRate /\ [][NextRate]_vars

InitTree ==
    /\ InitMemo
    /\ focus = "categorymembers"
    /\ IdlePage
    /\ IdleRate
    /\ IdleTree
    /\ IdleSite

SpecTree == InitTree /\ [][NextTree]_vars

SpecSite == InitTree /\ [][NextSite]_vars

(* the calls that are rejected for their arguments, among other calls *)
NextValid ==
    \/ MemoCall
    \/ MemoCallBlank
    \/ SetUseCache
    \/ SetRateLimit
    \/ categorytree

InitValid ==
    /\ Init
    /\ focus \in {"categorymembers", "opensearch"}

SpecValid == InitValid /\ [][NextValid]_vars

(* memoized calls between changes of the language and of the endpoint *)
NextLang ==
    \/ MediaWikiInit
    \/ MemoCall
    \/ SetLanguage
    \/ CallSetApiUrlPlain

SpecLang == InitRate /\ [][NextLang]_vars

(* calls that differ in how their arguments are passed *)
NextKey ==
    \/ MemoCallKeys
    \/ SetUseCache

SpecKey == InitTree /\ [][NextKey]_vars

(* the calls for a result count that is not positive *)
NextCount ==
    \/ MemoCallNonPositive
    \/ CallRandom
    \/ SetUseCache

SpecCount == Init /\ [][NextCount]_vars

-----
(* Properties of the memoized operations, under Spec *)

(* the latest observation is of a call, made with caching on or off *)
Called == last.call # NoCall
AgeAtCall == last.at - last.before[1]

(* C1: with use_cache true and no refresh interval, the second of two calls
   with the same arguments runs no function body, issues no API request and
   returns the stored value, the first having run the body of its operation
   when it found no entry; with use_cache false every call runs the body of
   its operation and leaves the cache alone, whatever the cache holds. *)
C1_MemoizedOnce ==
    Called =>
      /\ (last.use_cache /\ last.refresh = PyNone /\ last.repeat) =>
            /\ last.runs = {}
            /\ last.reqs = 0
            /\ last.ok
            /\ last.before # NoEntry
            /\ last.val = last.before[2]
            /\ last.after = last.before
      /\ (last.use_cache /\ last.before = NoEntry) =>
            /\ last.call.op \in last.runs
            /\ last.ok => last.after = <<last.at, last.val>>
      /\ ~last.use_cache =>
            /\ last.call.op \in last.runs
            /\ last.after = last.before

(* C1's case: the same call made twice with caching on, the second a hit *)
C1_Witness ==
    /\ Called
    /\ last.repeat
    /\ last.use_cache
    /\ last.refresh = PyNone
    /\ last.runs = {}
    /\ last.val = last.before[2]

(* C2: with a refresh interval R, a call that finds an entry older than R
   runs the body again and stores the result under the current time; a call
   that finds an entry of age at most R returns the stored value, runs
   nothing and leaves the entry, timestamp included, as it was. *)
C2_Refresh ==
    (Called /\ last.use_cache /\ last.refresh # PyNone /\ last.before # NoEntry) =>
      IF AgeAtCall > last.refresh[2]
      THEN /\ last.call.op \in last.runs
           /\ last.ok => last.after = <<last.at, last.val>>
      ELSE /\ last.runs = {}
           /\ last.reqs = 0
           /\ last.after = last.before
           /\ last.val = last.before[2]

(* C2's case: an entry older than R is found and replaced *)
C2_Witness ==
    /\ Called
    /\ last.use_cache
    /\ last.refresh # PyNone
    /\ last.before # NoEntry
    /\ AgeAtCall > last.refresh[2]
    /\ last.ok
    /\ last.after[1] = last.at
    /\ last.after[1] > last.before[1]

-----------------------------------------------------------------------------
(* Properties of categorymembers, under SpecPage *)

Min(a, b) == IF a < b THEN a ELSE b

(* the members returned, pages and subcategories together *)
Total == Len(pages) + Len(subcats)

(* the first n members of the category, as the API lists them *)
FirstMembers(n) == [i \in 1..n |-> Member(i, subcategories)]

(* the value categorymembers returns *)
cm_result == ReturnValue(subcategories, pages, subcats)

(* the records of every response so far, in order *)
delivered == FirstMembers(received)

(* the value returned holds the records of every response, in order *)
ReturnsAllDelivered ==
    /\ pages = PagesOf(delivered)
    /\ subcats = SubcatsOf(delivered)
    /\ cm_result = IF subcategories
                   THEN <<PagesOf(delivered), SubcatsOf(delivered)>>
                   ELSE <<PagesOf(delivered)>>

(* C3: categorymembers(category, results=N), N >= 1, against a well-behaved
   API (at least N members, at most cmlimit records per response, the position
   to resume at as continuation token while members remain) returns exactly
   the first N members, pages and subcategories each in the order delivered. *)
C3_ExactlyN ==
    (/\ cm_pc = "done"
     /\ results # PyNone
     /\ results[2] >= 1
     /\ srvCount >= results[2]
     /\ honest) =>
       /\ Total = results[2]
       /\ delivered = FirstMembers(results[2])
       /\ ReturnsAllDelivered

(* C3's case: N members collected over several responses, more being left *)
C3_Witness ==
    /\ cm_pc = "done"
    /\ results # PyNone
    /\ results[2] >= 2
    /\ srvCount > results[2]
    /\ honest
    /\ nReq >= 2
    /\ Total = results[2]
    /\ Len(subcats) >= 1

(* C4: with a finite results = N every request is sent with
   cmlimit <= min(500, N - members received before it), and the members
   received never exceed N, whatever the API answers within cmlimit. *)
C4_LimitBound ==
    results # PyNone =>
      /\ nReq >= 1 =>
           lastResp.limit <=
             Min(max_pull, results[2] - (Len(delivered) - lastResp.size))
      /\ cm_pc = "loop" =>
           cmlimit <= Min(max_pull, results[2] - Len(delivered))
      /\ Len(delivered) <= results[2]
      /\ Total <= results[2]

(* C4's case: a later request went out with a lowered cmlimit *)
C4_Witness ==
    /\ results # PyNone
    /\ results[2] > max_pull
    /\ nReq >= 2
    /\ lastResp.limit < max_pull
    /\ lastResp.limit = results[2] - (Len(delivered) - lastResp.size)

(* C5: when a response carries the continuation token that was sent with
   its request, the call is over with that response: it returns the members
   accumulated so far, those of that response included. *)
C5_RepeatStops ==
    (/\ cm_pc \in {"loop", "done"}
     /\ nReq >= 1
     /\ TokenOf(lastResp) # NoToken
     /\ TokenOf(lastResp) = lastResp.sent) =>
       /\ cm_pc = "done"
       /\ ReturnsAllDelivered

(* C5's case: the second response repeats the token of the first *)
C5_Witness ==
    /\ cm_pc = "done"
    /\ nReq >= 2
    /\ TokenOf(lastResp) # NoToken
    /\ TokenOf(lastResp) = lastResp.sent
    /\ lastResp.size >= 1
    /\ Total = Len(delivered)

(* C6 as stated: with results=None every request carries the token of the
   previous response, requests go on until a response carries no token, and
   the call then returns the members of every response, in order. *)
C6_UntilNoToken ==
    (results = PyNone /\ cm_pc \in {"loop", "done"}) =>
      /\ cm_pc = "loop" =>
           last_cont = IF nReq = 0 THEN NothingSent ELSE TokenOf(lastResp)
      /\ cm_pc = "done" <=> (nReq >= 1 /\ TokenOf(lastResp) = NoToken)
      /\ cm_pc = "done" => ReturnsAllDelivered

(* C6, amended: with results=None every request carries the token of the
   previous response, requests go on until a response carries no token or
   the token that was sent with its request, and the call then returns the
   members of every response, in order. *)
C6_UntilNoTokenOrRepeat ==
    (results = PyNone /\ cm_pc \in {"loop", "done"}) =>
      /\ cm_pc = "loop" =>
           last_cont = IF nReq = 0 THEN NothingSent ELSE TokenOf(lastResp)
      /\ cm_pc = "done" <=>
           /\ nReq >= 1
           /\ \/ TokenOf(lastResp) = NoToken
              \/ TokenOf(lastResp) = lastResp.sent
      /\ cm_pc = "done" => ReturnsAllDelivered

(* C6's case: the whole category is fetched in several requests *)
C6_Witness ==
    /\ results = PyNone
    /\ cm_pc = "done"
    /\ nReq >= 2
    /\ lastResp.sent # NothingSent
    /\ TokenOf(lastResp) = NoToken
    /\ Len(delivered) = srvCount
    /\ Total = srvCount

-----------------------------------------------------------------------------
(* Properties of a memoized call that raises, under Spec *)

(* C28: when the function of a memoized call raises, the entry of the
   call's key is as it was before the call, absent or with its old time and
   value, and the same call made next runs the function again. *)
C28_RaiseLeavesEntry ==
    [][ nCalls' = nCalls + 1 =>
          /\ (~last'.ok /\ last'.use_cache) => last'.after = last'.before
          /\ (/\ last.call # NoCall
              /\ ~last.ok /\ last.use_cache /\ use_cache
              /\ last'.call = last.call
              /\ refresh_interval = last.refresh) =>
                last'.call.op \in last'.runs ]_vars

(* C28's case: the refresh of a stale entry raised and the entry is kept *)
C28_Witness ==
    /\ ~last.ok
    /\ last.use_cache
    /\ last.call.op \in last.runs
    /\ last.before # NoEntry
    /\ last.after = last.before

-----------------------------------------------------------------------------
(* Properties of clear_memoized, under Spec *)

(* C18: clear_memoized leaves the cache without any entry and without the
   partition of the captured defaults, and a call of a memoized operation
   made next, with caching enabled, runs the operation's body instead of
   returning a stored value. *)
C18_ClearRecomputes ==
    [][ /\ last'.cleared => cache' = << >>
        /\ (last.cleared /\ nCalls' = nCalls + 1 /\ use_cache) =>
             /\ last'.before = NoEntry
             /\ last'.call.op \in last'.runs ]_vars

(* C18's case: a call that had stored its value is made again after
   clear_memoized and computes again *)
C18_Witness ==
    /\ last.afterClear
    /\ last.use_cache
    /\ last.ok
    /\ last.call.op \in last.runs
    /\ last.after # NoEntry

-----------------------------------------------------------------------------
(* Properties of the rate limiter, under SpecRate *)

(* C7: with rate limiting on and no setter of the limiter called in between,
   a request that follows a completed request is sent no earlier than
   min_wait after that request completed. *)
C7_MinWaitElapsed ==
    (/\ rq_pc = "inflight"
     /\ rate_limit
     /\ ~touched
     /\ prevDone # Never) =>
       sentAt >= prevDone + min_wait

(* C7's case: the second call came too quickly, slept and then sent *)
C7_Witness ==
    /\ rq_pc = "inflight"
    /\ rate_limit
    /\ ~touched
    /\ prevDone # Never
    /\ min_wait >= 2
    /\ rq_out = "slept"
    /\ sentAt = prevDone + min_wait

(* C17: after rate_limit or rate_limit_min_wait has been set, the time of
   the last call is unset, and the first wiki_request that follows is sent
   without waiting, however recently the previous request completed. *)
C17_SetterResets ==
    touched =>
      /\ rate_limit_last_call = PyNone
      /\ rq_pc # "wait"
      /\ rq_pc \in {"send", "inflight"} => rq_out = "none"

(* C17's case: a request sent, with rate limiting on, sooner after the
   previous one completed than min_wait allows, a setter having been called *)
C17_Witness ==
    /\ touched
    /\ rq_pc = "inflight"
    /\ rate_limit
    /\ rq_out = "none"
    /\ prevDone # Never
    /\ sentAt < prevDone + min_wait

-----------------------------------------------------------------------------
(* Properties of categorytree, under SpecTree *)

LevelOf(p) == Len(p) - 1
FullNodes == {p \in DOMAIN tree : tree[p] # Null}
Fetched(n) == pageFetches[n] > 0 \/ memberFetches[n] > 0

(* every fetch was for a category that is a full node somewhere in the tree *)
NoFetchForPlaceholders ==
    \A n \in Names : Fetched(n) => \E p \in FullNodes : Last(p) = n

(* C8 as stated: categorytree(category, depth=d) expands exactly d levels,
   the root being the first: the nodes at level d - 1 are the last full ones
   (with depth=1 the subcategories of the root are null placeholders, with
   depth=2 those of the root's subcategories), and nothing is fetched for a
   placeholder. *)
C8_ExactlyDepthLevels ==
    (tr_pc = "done" /\ depth # PyNone) =>
      /\ \A p \in DOMAIN tree :
           /\ tree[p] = Null <=> LevelOf(p) = depth[2]
           /\ tree[p] # Null =>
                \A c \in Range(graph[Last(p)]) : p \o <<c>> \in DOMAIN tree
      /\ NoFetchForPlaceholders

(* C8, amended: categorytree(category, depth=d) builds full nodes at the
   levels 0..d: every subcategory of a node above level d is a full node one
   level down, every subcategory of a node at level d is a null placeholder,
   and nothing is fetched for a category on account of a placeholder. *)
C8_LevelsUpToDepth ==
    (tr_pc = "done" /\ depth # PyNone) =>
      /\ \A p \in DOMAIN tree :
           /\ tree[p] = Null <=> LevelOf(p) = depth[2] + 1
           /\ tree[p] # Null =>
                /\ tree[p].depth = LevelOf(p)
                /\ \A c \in Range(graph[Last(p)]) : p \o <<c>> \in DOMAIN tree
      /\ NoFetchForPlaceholders

(* C8's case: depth=1, the root's subcategory is a full node and that
   node's subcategory a placeholder nothing was fetched for *)
C8_Witness ==
    /\ tr_pc = "done"
    /\ depth = PyInt(1)
    /\ \E p \in DOMAIN tree :
         /\ Len(p) = 3
         /\ tree[p] = Null
         /\ ~Fetched(Last(p))
         /\ tree[SubSeq(p, 1, 2)] # Null

(* C9: in a categorytree call in which no fetch has failed, self.page and
   self.categorymembers have each been called at most once for any category
   name. *)
C9_FetchedOnce ==
    ~anyFailed =>
      \A n \in Names : pageFetches[n] <= 1 /\ memberFetches[n] <= 1

(* C9's case: a category that is a full node at two levels, fetched once *)
C9_Witness ==
    /\ tr_pc = "done"
    /\ ~anyFailed
    /\ \E p, q \in FullNodes :
         /\ Len(p) # Len(q)
         /\ Last(p) = Last(q)
         /\ pageFetches[Last(p)] = 1
         /\ memberFetches[Last(p)] = 1

(* C10: while one category is resolved, every failed attempt (other than
   PageError and KeyboardInterrupt) is followed by one second of sleep and,
   up to the tenth failure, by another attempt; there are never more than 11
   attempts; MediaWikiCategoryTreeError is raised, for that category, exactly
   when more than 10 attempts have failed; after a successful attempt the
   node is built from the data fetched. *)
C10_BoundedRetry ==
    /\ attempts <= 11
    /\ tr_pc = "try" => (tries <= 10 /\ slept = tries /\ attempts = tries)
    /\ tr_pc = "sleep" => (slept + 1 = tries /\ attempts = tries)
    /\ tr_err[1] = "MediaWikiCategoryTreeError" <=>
         (tries > 10 /\ tr_pc # "sleep")
    /\ tr_err[1] = "MediaWikiCategoryTreeError" =>
         /\ tr_pc = "raised"
         /\ tr_err[2] = Last(cur.path)
         /\ attempts = 11
         /\ slept = 11
    /\ (tr_pc = "fill" /\ attempts >= 1) =>
         /\ Last(cur.path) \in categories
         /\ links[Last(cur.path)] = MembersOf(graph, Last(cur.path))
    /\ (tr_pc \in {"walk", "done"} /\ cur # NoCallRec) =>
         tree[cur.path].links = MembersOf(graph, Last(cur.path))[1]

(* C10's case: ten failed attempts, ten sleeps, and the eleventh succeeds *)
C10_Witness ==
    /\ tr_pc = "walk"
    /\ tries = 10
    /\ slept = 10
    /\ attempts = 11
    /\ tree[cur.path].links = MembersOf(graph, Last(cur.path))[1]

(* C11: an attempt that ends in PageError or KeyboardInterrupt, also one
   that follows retried failures, ends the categorytree call with that
   exception for that category: it is the last attempt, and no sleep follows
   it. *)
C11_FatalPropagates ==
    lastOutcome \in {"PageError", "KeyboardInterrupt"} =>
      /\ tr_pc = "raised"
      /\ tr_err = <<lastOutcome, Last(cur.path)>>
      /\ attempts = tries + 1
      /\ slept = tries

(* C11's case: the page is not found on an attempt after two retried ones *)
C11_Witness ==
    /\ lastOutcome = "PageError"
    /\ tr_pc = "raised"
    /\ tries = 2
    /\ slept = 2
    /\ attempts = 3

(* the paths of category names that lead from the categories asked for
   through at most n categories *)
RECURSIVE PathsFrom(_, _, _)
PathsFrom(g, roots, n) ==
    IF n <= 1 THEN {<<r>> : r \in roots}
    ELSE LET shorter == PathsFrom(g, roots, n - 1)
         IN shorter \cup
            UNION { {p \o <<c>> : c \in Range(g[Last(p)])} :
                    p \in {q \in shorter : Len(q) = n - 1} }

(* the categories asked for, blanks dropped (line 808) *)
Roots == {tr_cats[i] : i \in 1..Len(tr_cats)} \ {""}

(* the paths below the categories asked for, cut off where a path has gone
   through more categories than there are *)
Paths == PathsFrom(graph, Roots, Cardinality(Names) + 1)
Acyclic == \A p \in Paths : Len(p) <= Cardinality(Names)
Height == IF \E p \in Paths : Len(p) = 3 THEN 2
          ELSE IF \E p \in Paths : Len(p) = 2 THEN 1 ELSE 0

(* C12: on an acyclic category graph, with a depth larger than the height of
   the graph and every fetch succeeding, categorytree returns a node for
   every path of subcategories from a category asked for, and only for
   those: the node of a category reached after L steps has depth L, the
   pages and files of the category in the order of the API as links and the
   categories of its page as parent-categories; its sub-categories are the
   nodes of its subcategories, none if it has none. *)
C12_WholeTree ==
    (/\ tr_pc = "done"
     /\ ~anyFailed
     /\ Acyclic
     /\ depth # PyNone
     /\ depth[2] > Height) =>
       /\ DOMAIN tree = Paths
       /\ \A p \in DOMAIN tree :
            tree[p] = [depth |-> LevelOf(p),
                       links |-> MembersOf(graph, Last(p))[1],
                       parents |-> ParentsOf(graph, Last(p))]

(* C12's case: a root with two subcategories, built in full at depth 2 *)
C12_Witness ==
    /\ tr_pc = "done"
    /\ ~anyFailed
    /\ Acyclic
    /\ tr_cats = <<"A">>
    /\ depth = PyInt(2)
    /\ Height = 1
    /\ Cardinality(DOMAIN tree) = 3
    /\ tree[<<"A", "C">>].depth = 1

(* C20: categorytree called with a single category name that is None,
   empty or of white space only raises ValueError, and no page or member
   fetch, sleep or retry is made for it. *)
C20_BlankRejected ==
    (/\ tr_pc # "idle"
     /\ Len(tr_cats) = 1
     /\ tr_cats[1] \in {NoneName, "", Blank}) =>
       /\ tr_pc = "raised"
       /\ tr_err = <<"ValueError", "">>
       /\ pageFetches[Blank] = 0
       /\ memberFetches[Blank] = 0

-----------------------------------------------------------------------------
(* Properties of the argument checks, under SpecValid *)

(* the entries of a cache: operation, key and what is stored under them *)
Entries(c) ==
    UNION { {<<name, key, c[name][key]>> : key \in DOMAIN c[name]} :
            name \in DOMAIN c \ {"defaults"} }

(* C13: categorymembers and opensearch called with an empty query, and
   categorytree called with depth=0, raise ValueError, and the call issues
   no request, leaves the time of the last rate-limited call as it was and
   leaves the entries of the cache as they were. *)
C13_RejectedBeforeRequest ==
    [][ /\ (nCalls' = nCalls + 1 /\ last'.call \in BlankCalls) =>
             /\ ~last'.ok
             /\ last'.exc = "ValueError"
             /\ last'.reqs = 0
             /\ rate_limit_last_call' = rate_limit_last_call
             /\ Entries(cache') = Entries(cache)
        /\ (tr_pc = "idle" /\ tr_pc' # "idle" /\ depth' = PyInt(0)) =>
             /\ tr_pc' = "raised"
             /\ tr_err' = <<"ValueError", "">>
             /\ pageFetches' = pageFetches
             /\ memberFetches' = memberFetches
             /\ rate_limit_last_call' = rate_limit_last_call
             /\ cache' = cache ]_vars

(* C13's case: categorymembers("") is rejected by a rate-limited client
   that holds an entry and the time of an earlier call *)
C13_Witness ==
    /\ last.call = Call("categorymembers", <<PyString("")>>, NoKw)
    /\ last.exc = "ValueError"
    /\ last.reqs = 0
    /\ Entries(cache) # {}
    /\ rate_limit_last_call # PyNone

-----------------------------------------------------------------------------
(* Properties of the endpoint, login and error mapping, under SpecSite *)

(* C14: _check_error_response raises nothing for a response without
   "error"; HTTPTimeoutError when error.info is "HTTP request timed out." or
   "Pool queue is full"; MediaWikiGeoCoordError when it is one of the three
   geocoordinate phrases; and otherwise MediaWikiException with error.info
   as its message. *)
C14_ErrorMapping ==
    siteLast.op = "check" =>
      LET error == siteLast.response.error
          info == siteLast.response.info
          timeouts == {"HTTP request timed out.", "Pool queue is full"}
          geo == {"Page coordinates unknown.",
                  "One of the parameters gscoord, gspage, gsbbox is required",
                  "Invalid coordinate provided"}
      IN /\ ~error => siteLast.exc = ""
         /\ (error /\ info \in timeouts) => siteLast.exc = "HTTPTimeoutError"
         /\ (error /\ info \in geo) =>
              /\ siteLast.exc = "MediaWikiGeoCoordError"
              /\ siteLast.msg = info
         /\ (error /\ info \notin timeouts \cup geo) =>
              /\ siteLast.exc = "MediaWikiException"
              /\ siteLast.msg = info

(* C14's case: the pool-exhaustion phrase *)
C14_Witness ==
    /\ siteLast.op = "check"
    /\ siteLast.response = ApiResponse(TRUE, "Pool queue is full")
    /\ siteLast.exc = "HTTPTimeoutError"

(* C15: a set_api_url that does not complete raises MediaWikiAPIURLError
   and leaves api_url and lang as they were before the call. *)
C15_RollsBack ==
    (siteLast.op = "set_api_url" /\ siteLast.exc # "") =>
      /\ siteLast.exc = "MediaWikiAPIURLError"
      /\ api_url = siteLast.old_api_url
      /\ lang = siteLast.old_lang

(* the failures of site-info resolution C16 lists *)
ListedFailure(response) ==
    \/ ~response.query
    \/ ~response.general
    \/ response.server = ""
    \/ /\ response.generator.present
       /\ \/ Len(response.generator.words) < 2
          \/ \E i \in 1..Len(response.generator.words[2][1]) :
                ~IsInt(response.generator.words[2][1][i])

(* C16: a constructor whose site-info resolution fails on an empty
   response, on a missing query or general section, on a missing or empty
   server or on a generator without integer version components raises
   MediaWikiAPIURLError. *)
C16_SurfacedAsAPIURLError ==
    (/\ siteLast.op = "init"
     /\ siteLast.stage = "siteinfo"
     /\ siteLast.net = "ok"
     /\ ListedFailure(siteLast.siteinfo)) =>
       /\ site_pc = "failed"
       /\ siteLast.exc = "MediaWikiAPIURLError"

(* C19: when the server answers the login request with result "Success",
   login sets logged_in and returns True; when it answers with another
   result, login clears logged_in and raises MediaWikiLoginError with the
   reason the server gave if strict, or returns False if not. *)
C19_LoginResult ==
    (/\ siteLast.op = "login"
     /\ siteLast.stage = "login"
     /\ siteLast.res.present) =>
       IF siteLast.res.result = "Success"
       THEN /\ is_logged_in
            /\ siteLast.ret = "True"
            /\ siteLast.exc = ""
       ELSE /\ ~is_logged_in
            /\ ~siteLast.strict => (siteLast.ret = "False" /\ siteLast.exc = "")
            /\ siteLast.strict => siteLast.exc # ""
            /\ (siteLast.strict /\ siteLast.res.reason # NoReason) =>
                 /\ siteLast.exc = "MediaWikiLoginError"
                 /\ siteLast.msg =
                      "MediaWiki login failure: " \o siteLast.res.reason

(* C19's case: a strict login the server answers with "Failed" *)
C19_Witness ==
    /\ siteLast.op = "login"
    /\ siteLast.strict
    /\ siteLast.res.result = "Failed"
    /\ siteLast.exc = "MediaWikiLoginError"
    /\ siteLast.msg = "MediaWiki login failure: Incorrect password entered"
    /\ ~is_logged_in

-----------------------------------------------------------------------------
(* Properties of the result counts, under SpecCount *)

(* C21: random, allpages, search, geosearch, opensearch, prefixsearch and
   categorymembers, called for a result count of zero or less, raise
   ValueError without issuing a request. *)
C21_NonPositiveRejected ==
    (/\ last.call.op \in {"random", "allpages", "search", "geosearch",
                          "opensearch", "prefixsearch", "categorymembers"}
     /\ \/ "results" \in DOMAIN last.call.kw /\ last.call.kw.results[2] < 1
        \/ "pages" \in DOMAIN last.call.kw
           /\ last.call.kw.pages # PyNone
           /\ last.call.kw.pages[2] < 1) =>
       /\ ~last.ok
       /\ last.exc = "ValueError"
       /\ last.reqs = 0

-----------------------------------------------------------------------------
(* Further properties of categorytree, under SpecTree *)

(* C22: with a depth d >= 1, every node of the tree has a depth field in
   0..d, which is 0 for the categories asked for and one more than its
   parent's for a subcategory; the subcategories of a node at level d are
   null placeholders; and __cat_tree_rec is never called at level d + 1. *)
C22_DepthBounded ==
    (depth # PyNone /\ depth[2] >= 1) =>
      /\ \A p \in DOMAIN tree :
           IF tree[p] = Null
           THEN Len(p) - 1 = depth[2] + 1
           ELSE /\ tree[p].depth = Len(p) - 1
                /\ tree[p].depth \in 0..depth[2]
                /\ Len(p) > 1 =>
                     tree[SubSeq(p, 1, Len(p) - 1)].depth + 1 = tree[p].depth
      /\ cur.level <= depth[2]
      /\ \A i \in 1..Len(stack) : stack[i].level < depth[2]
      /\ tr_pc = "done" =>
           \A p \in DOMAIN tree :
             (tree[p] # Null /\ tree[p].depth = depth[2]) =>
               \A c \in Range(graph[Last(p)]) :
                 p \o <<c>> \in DOMAIN tree /\ tree[p \o <<c>>] = Null

(* C22's case: a tree of depth 1 with a node at level 1 whose subcategory
   is a placeholder *)
C22_Witness ==
    /\ tr_pc = "done"
    /\ depth = PyInt(1)
    /\ \E p \in DOMAIN tree :
         /\ Len(p) = 3
         /\ tree[p] = Null
         /\ tree[SubSeq(p, 1, 2)].depth = 1

(* C23: on every category graph, one with a cycle included, and for every
   admissible depth (None or an integer >= 1), a categorytree whose fetches
   all succeed comes to its end by itself: the recursion does not nest until
   the interpreter stops it. *)
C23_CycleSafe ==
    ~ /\ tr_pc = "raised"
      /\ tr_err[1] = "RecursionError"
      /\ ~anyFailed
      /\ depth = PyNone \/ depth[2] >= 1

-----------------------------------------------------------------------------
(* A further property of the rate limiter, under SpecRate *)

(* C24: a wiki_request that finds rate limiting on and last_call + min_wait
   after the clock calls time.sleep with (last_call + min_wait) - now, now
   being the clock value the test was made with, and never with a negative
   length. *)
C24_ExactNonNegativeSleep ==
    waitObs.asked =>
      /\ waitObs.length >= 0
      /\ (rq_pc = "send" /\ rq_out = "slept") =>
           waitObs.length =
             (rate_limit_last_call[2] + min_wait) - waitObs.checked

-----------------------------------------------------------------------------
(* Properties of the session, under SpecSite *)

(* C29: logged_in is true only if the most recent successful login was made
   against the endpoint api_url names and the session has not been reset
   since. *)
C29_LoggedInHere ==
    is_logged_in => login_url = api_url

-----------------------------------------------------------------------------
(* Properties of the cache across changes of the endpoint, under SpecLang *)

(* C25: the language setter called with another language, and a set_api_url
   that completes, leave the cache empty, so that the memoized call made
   next computes its value; the language setter called with the current
   language, in any case of letters, changes neither api_url nor the
   cache. *)
C25_ChangeClears ==
    [][ /\ (nCalls' = nCalls /\ siteLast'.op = "language") =>
             IF Lower(siteLast'.stage) = lang
             THEN api_url' = api_url /\ lang' = lang /\ cache' = cache
             ELSE cache' = << >>
        /\ (nCalls' = nCalls /\ siteLast'.op = "set_api_url"
               /\ siteLast'.exc = "") => cache' = << >>
        /\ (nCalls' = nCalls + 1 /\ last.cleared /\ use_cache) =>
             /\ last'.before = NoEntry
             /\ last'.call.op \in last'.runs ]_vars

(* C25's case: a value was memoized, the language was changed, and the same
   call computes again *)
C25_Witness ==
    /\ siteLast.op = "language"
    /\ siteLast.old_lang # lang
    /\ last.afterClear
    /\ last.call.op \in last.runs
    /\ last.after # NoEntry

-----------------------------------------------------------------------------
(* Properties of the cache key, under SpecKey *)

(* C26: two calls of an operation with equal effective arguments use the
   same cache entry, the second being a hit, whether a parameter with a
   default is omitted, passed by keyword or passed by position. *)
C26_KeyOfEffectiveArguments ==
    [][ (/\ nCalls' = nCalls + 1
         /\ last.call # NoCall
         /\ last.ok /\ last.use_cache /\ use_cache
         /\ last'.call.op = last.call.op
         /\ Bind(last'.call) = Bind(last.call)) =>
           /\ last'.key = last.key
           /\ last'.runs = {}
           /\ last'.reqs = 0 ]_vars

(* C27: a memoized call returns a value that was computed for its own
   effective arguments, never one computed for other arguments. *)
C27_KeyedApart ==
    (last.call # NoCall /\ last.ok) =>
      /\ last.val.op = last.call.op
      /\ last.val.args = Bind(last.call)

-----------------------------------------------------------------------------
(* A further property of categorymembers, under SpecPage *)

(* C30: categorymembers with results = N >= 1 issues at most N requests and
   then is over, whatever continuation tokens the responses carry, when
   every response holds at least one member. *)
C30_AtMostNRequests ==
    (results # PyNone /\ results[2] >= 1 /\ nonEmpty) =>
      /\ nReq <= results[2]
      /\ cm_pc = "loop" => nReq < results[2]

(* C30's case: the second of two requests carried a token again, made up
   by the API and not the one sent, and the call was over for its count *)
C30_Witness ==
    /\ results = PyInt(2)
    /\ nonEmpty
    /\ nReq = 2
    /\ cm_pc = "done"
    /\ lastResp.sent \notin {NothingSent, TokenOf(lastResp)}
    /\ TokenOf(lastResp) # NoToken
    /\ lastResp.sent[1] # TokenOf(lastResp)[1]

====
